---- MODULE Spec2Model ----
(***************************************************************************)
(* Model of the court finder page (src/src/components/blocks/demo.tsx).    *)
(*                                                                         *)
(* Text is a sequence of one-character strings.  loadCourtsData is a       *)
(* state machine: the call, the two awaits (fetch, response.text()), one   *)
(* step per iteration of the loop over the lines, the return and the       *)
(* catch.  The JavaScript built-ins used by the code (split, trim,         *)
(* parseInt, parseFloat) are operators that compute what the built-ins     *)
(* compute on the characters.                                              *)
(***************************************************************************)
EXTENDS Integers, Sequences, FiniteSets, TLC

(***************************************************************************)
(* Bounds of the model                                                     *)
(***************************************************************************)
\* number of physical lines after the header line in an input text
MaxDataLines == 2
\* number of invocations of loadCourtsData in one behaviour of SpecAgain
MaxCalls == 2
\* clicks of a Report button
MaxReports == 2
\* ticks of the minute timer
MaxTicks == 1
\* runs of the marker effect with a map
MaxRuns == 3
\* length of the array texts
MaxTexts == 4

(***************************************************************************)
(* State                                                                   *)
(***************************************************************************)
VARIABLES
  resource,      \* the text served for '/NYC TENNIS COURTS - Sheet1.csv'
  pc,            \* "idle", "fetch", "text" or "loop"
  calls,         \* invocations of loadCourtsData started so far
  settled,       \* per invocation: how its promise settled and with what
  lines, i, currentRow, currentField, inQuotes,
  rowCount, processedRows, validCourts, startParsing,
  courts,        \* the local array courts
  closedRow,     \* history: currentRow as it was when the last row closed
  console,       \* the kinds of the messages written to the console
  selectedBoroughs, selectedSurfaces, selectedPermitStatuses,
  stateCourts,   \* the state courts of MediaContent (the name courts is
                 \* the local array of loadCourtsData)
  loading, waitTimes, reporting, reportSuccess, timeUpdate,
  checked,       \* the filter checkboxes that are checked (they are
                 \* uncontrolled inputs: the document holds their state)
  pending,       \* the calls of handleReportWaitTime waiting for their
                 \* 1000 ms timer, the oldest first
  timers,        \* the 3000 ms timers that have not fired yet
  alerts,        \* alert boxes shown so far
  reported,      \* clicks of a Report button so far
  map, markers,  \* the state of MapComponent
  attached,      \* the markers whose map is the map
  runs,          \* runs of the marker effect with a map so far
  texts,         \* the prop texts of GooeyText
  currentTextIndex

vars ==
  <<resource, pc, calls, settled, lines, i, currentRow, currentField,
    inQuotes, rowCount, processedRows, validCourts, startParsing, courts,
    closedRow, console, selectedBoroughs, selectedSurfaces,
    selectedPermitStatuses, stateCourts, loading, waitTimes, reporting,
    reportSuccess, timeUpdate, checked, pending, timers, alerts, reported,
    map, markers, attached, runs, texts, currentTextIndex>>

\* the prop and the state of the component GooeyText
gooeyText == <<texts, currentTextIndex>>

\* the state of the component MapComponent and of its map
mapComponent == <<map, markers, attached, runs>>

\* the state of the component MediaContent
page ==
  <<selectedBoroughs, selectedSurfaces, selectedPermitStatuses, stateCourts,
    loading, waitTimes, reporting, reportSuccess, timeUpdate, checked,
    pending, timers, alerts, reported>>

\* the state of loadCourtsData and of what it reads and writes
loader ==
  <<resource, pc, calls, settled, lines, i, currentRow, currentField,
    inQuotes, rowCount, processedRows, validCourts, startParsing, courts,
    closedRow, console>>

locals ==
  <<lines, i, currentRow, currentField, inQuotes, rowCount, processedRows,
    validCourts, startParsing, courts, closedRow>>

(***************************************************************************)
(* Characters                                                              *)
(***************************************************************************)
Quote == "\""
Comma == ","
NL == "\n"
\* the characters String.prototype.trim removes that occur in the inputs
WhiteSpace == {" ", "\n", "\t", "\r"}
Digits == {"0", "1", "2", "3", "4", "5", "6", "7", "8", "9"}

DigitVal(c) ==
  CASE c = "0" -> 0 [] c = "1" -> 1 [] c = "2" -> 2 [] c = "3" -> 3
    [] c = "4" -> 4 [] c = "5" -> 5 [] c = "6" -> 6 [] c = "7" -> 7
    [] c = "8" -> 8 [] c = "9" -> 9

(***************************************************************************)
(* JavaScript built-ins, computed on the characters                        *)
(***************************************************************************)
\* text.split(sep) for a one-character separator: the pieces between the
\* occurrences of sep; a text without sep (the empty text included) is one
\* piece
split(text, sep) ==
  LET breaks == {k \in 1..Len(text) : text[k] = sep}
      \* the position of the p-th separator; 0 and Len(text) + 1 at the ends
      break(p) ==
        IF p = 0 THEN 0
        ELSE IF p > Cardinality(breaks) THEN Len(text) + 1
        ELSE CHOOSE k \in breaks : Cardinality({b \in breaks : b < k}) = p - 1
  IN [p \in 1..(Cardinality(breaks) + 1) |->
        SubSeq(text, break(p - 1) + 1, break(p) - 1)]

RECURSIVE trimStart(_)
trimStart(s) ==
  IF s # <<>> /\ Head(s) \in WhiteSpace THEN trimStart(Tail(s)) ELSE s

RECURSIVE trimEnd(_)
trimEnd(s) ==
  IF s # <<>> /\ s[Len(s)] \in WhiteSpace
  THEN trimEnd(SubSeq(s, 1, Len(s) - 1)) ELSE s

\* trim, were the white space at the end kept
trimStartOnly(s) == trimStart(s)

\* currentField.trim()
trim(s) == trimEnd(trimStart(s))

\* the longest prefix of s made of digits
RECURSIVE digitPrefix(_)
digitPrefix(s) ==
  IF s # <<>> /\ Head(s) \in Digits
  THEN <<Head(s)>> \o digitPrefix(Tail(s)) ELSE <<>>

RECURSIVE digitsValue(_, _)
digitsValue(ds, acc) ==
  IF ds = <<>> THEN acc ELSE digitsValue(Tail(ds), 10 * acc + DigitVal(Head(ds)))

\* Numbers are decimal fractions m / 10^e; nan marks NaN.
NaN == [nan |-> TRUE, m |-> 0, e |-> 0]
Num(m, e) == [nan |-> FALSE, m |-> m, e |-> e]

\* the same number without trailing zeros in the fraction (40.70 = 40.7)
RECURSIVE normalize(_)
normalize(x) ==
  IF x.nan \/ x.e = 0 \/ x.m % 10 # 0 THEN x
  ELSE normalize(Num(x.m \div 10, x.e - 1))

\* sign and rest of a numeric string after the optional + or -
signOf(s) == IF s # <<>> /\ Head(s) = "-" THEN -1 ELSE 1
unsigned(s) == IF s # <<>> /\ Head(s) \in {"-", "+"} THEN Tail(s) ELSE s

\* parseInt(string): leading white space skipped, optional sign, then the
\* longest run of decimal digits; NaN when there is no digit
parseInt(s) ==
  LET t == trimStart(s)
      ds == digitPrefix(unsigned(t))
  IN IF ds = <<>> THEN NaN ELSE Num(signOf(t) * digitsValue(ds, 0), 0)

\* parseFloat(string): leading white space skipped, optional sign, digits,
\* optionally a point and digits; NaN when neither part has a digit.  (The
\* input texts hold no exponent and no "Infinity".)
parseFloat(s) ==
  LET t == trimStart(s)
      u == unsigned(t)
      ip == digitPrefix(u)
      afterInt == SubSeq(u, Len(ip) + 1, Len(u))
      fp == IF afterInt # <<>> /\ Head(afterInt) = "."
            THEN digitPrefix(Tail(afterInt)) ELSE <<>>
  IN IF ip = <<>> /\ fp = <<>> THEN NaN
     ELSE normalize(Num(signOf(t) * digitsValue(ip \o fp, 0), Len(fp)))

Zero == Num(0, 0)

\* orZero, were the fallback || 0 missing
orZeroMissing(x) == x

\* x || 0 for a number x: NaN and 0 are falsy
orZero(x) == IF x.nan \/ x.m = 0 THEN Zero ELSE x

(***************************************************************************)
(* loadCourtsData: the body of the loop over the lines                     *)
(*                                                                         *)
(* s is the record of the function's local variables.                      *)
(***************************************************************************)
\* scanChar, were the quote character also put in the field buffer
scanCharKeepQuote(s, char) ==
  IF char = Quote
  THEN [s EXCEPT !.inQuotes = ~s.inQuotes,
                 !.currentField = Append(s.currentField, char)]
  ELSE IF char = Comma /\ ~s.inQuotes
  THEN [s EXCEPT !.currentRow = Append(s.currentRow, trim(s.currentField)),
                 !.currentField = <<>>]
  ELSE [s EXCEPT !.currentField = Append(s.currentField, char)]

\* scanChar, were every comma the end of a field
scanCharEveryComma(s, char) ==
  IF char = Quote
  THEN [s EXCEPT !.inQuotes = ~s.inQuotes]
  ELSE IF char = Comma
  THEN [s EXCEPT !.currentRow = Append(s.currentRow, trim(s.currentField)),
                 !.currentField = <<>>]
  ELSE [s EXCEPT !.currentField = Append(s.currentField, char)]

\* one character of the inner loop
scanChar(s, char) ==
  IF char = Quote
  THEN [s EXCEPT !.inQuotes = ~s.inQuotes]
  ELSE IF char = Comma /\ ~s.inQuotes
  THEN [s EXCEPT !.currentRow = Append(s.currentRow, trim(s.currentField)),
                 !.currentField = <<>>]
  ELSE [s EXCEPT !.currentField = Append(s.currentField, char)]

\* the inner loop over the characters line[lo..hi] of a line, in order.
\* The range is halved and the state after the first half is computed
\* before the second half is entered, which keeps the evaluation shallow.
RECURSIVE scanRange(_, _, _, _)
scanRange(s, line, lo, hi) ==
  IF lo > hi THEN s
  ELSE IF lo = hi THEN scanChar(s, line[lo])
  ELSE LET mid == (lo + hi) \div 2
           left == scanRange(s, line, lo, mid)
       IN IF left.inQuotes \in BOOLEAN
          THEN scanRange(left, line, mid + 1, hi)
          ELSE left

scanLine(s, line) == scanRange(s, line, 1, Len(line))

\* enoughFields, were exactly 11 fields required
enoughFieldsExactly(row) == Len(row) = 11

\* the row is processed when it has enough fields
MinFields == 11
enoughFields(row) == Len(row) >= MinFields

\* makeCourt, were the id the number of the row instead of the position
\* among the accepted records
makeCourtRowId(row, n) ==
  [id |-> rowCount + 1,
   name |-> row[1],
   address |-> row[2],
   borough |-> row[3],
   surface |-> row[4],
   permitStatus |-> row[5],
   courts |-> orZero(parseInt(row[6])),
   datesOpen |-> row[7],
   hours |-> row[8],
   description |-> row[9],
   lat |-> orZero(parseFloat(row[10])),
   lng |-> orZero(parseFloat(row[11]))]

\* makeCourt, were the two coordinates read from each other's column
makeCourtSwapped(row, n) ==
  [id |-> n + 1,
   name |-> row[1],
   address |-> row[2],
   borough |-> row[3],
   surface |-> row[4],
   permitStatus |-> row[5],
   courts |-> orZero(parseInt(row[6])),
   datesOpen |-> row[7],
   hours |-> row[8],
   description |-> row[9],
   lat |-> orZero(parseFloat(row[11])),
   lng |-> orZero(parseFloat(row[10]))]

\* the CourtData built from a complete row; n is courts.length
makeCourt(row, n) ==
  [id |-> n + 1,
   name |-> row[1],
   address |-> row[2],
   borough |-> row[3],
   surface |-> row[4],
   permitStatus |-> row[5],
   courts |-> orZero(parseInt(row[6])),
   datesOpen |-> row[7],
   hours |-> row[8],
   description |-> row[9],
   lat |-> orZero(parseFloat(row[10])),
   lng |-> orZero(parseFloat(row[11]))]

\* skipped, were a court count of 0 a reason to skip the row
skippedNoCourts(court) ==
  \/ court.lat = Zero \/ court.lng = Zero \/ court.courts = Zero
  \/ court.name = <<>> \/ Len(court.name) = 0

\* skipped, were the test of the latitude missing
skippedNoLat(court) ==
  court.lng = Zero \/ court.name = <<>> \/ Len(court.name) = 0

\* the condition under which a court is logged as skipped instead of pushed
skipped(court) ==
  court.lat = Zero \/ court.lng = Zero \/ court.name = <<>> \/ Len(court.name) = 0

\* processRow, were an accepted court put in front of the array
processRowPrepend(row, cs) ==
  IF enoughFields(row)
  THEN LET court == makeCourt(row, Len(cs))
       IN IF skipped(court) THEN cs ELSE <<court>> \o cs
  ELSE cs

\* processRow, were the record pushed twice
processRowTwice(row, cs) ==
  IF enoughFields(row)
  THEN LET court == makeCourt(row, Len(cs))
       IN IF skipped(court) THEN cs ELSE Append(Append(cs, court), court)
  ELSE cs

\* processRow, were a short row padded with its last field
processRowPadded(row, cs) ==
  LET padded == [k \in 1..11 |-> IF k <= Len(row) THEN row[k] ELSE row[Len(row)]]
      court == makeCourt(IF Len(row) < 11 THEN padded ELSE row, Len(cs))
  IN IF skipped(court) THEN cs ELSE Append(cs, court)

\* the array courts after a closed row has been processed
processRow(row, cs) ==
  IF enoughFields(row)
  THEN LET court == makeCourt(row, Len(cs))
       IN IF skipped(court) THEN cs ELSE Append(cs, court)
  ELSE cs

\* continued, were the line break not put back
continuedNoBreak(field) == field

\* the field buffer when the line ends inside a quoted field
continued(field) == Append(field, NL)

\* scanStep, were the row buffer reset only after a row with enough fields
scanStepKeepDropped(s, line) ==
  LET t == scanLine(s, line)
      row == Append(t.currentRow, trim(t.currentField))
      pushed == processRow(row, t.courts)
  IN IF ~t.inQuotes
     THEN [t EXCEPT !.rowCount = t.rowCount + 1,
                    !.closedRow = row,
                    !.processedRows =
                       IF enoughFields(row) THEN t.processedRows + 1
                       ELSE t.processedRows,
                    !.courts = pushed,
                    !.validCourts = t.validCourts + Len(pushed) - Len(t.courts),
                    !.console =
                       IF ~enoughFields(row) THEN Append(t.console, "insufficient")
                       ELSE IF pushed = t.courts THEN Append(t.console, "skipping")
                       ELSE t.console,
                    !.currentRow = IF enoughFields(row) THEN <<>> ELSE row,
                    !.currentField = <<>>]
     ELSE [t EXCEPT !.currentField = continued(t.currentField)]

\* scanStep, were the row closed at the end of every line
scanStepCloseAlways(s, line) ==
  LET t == scanLine(s, line)
      row == Append(t.currentRow, trim(t.currentField))
      pushed == processRow(row, t.courts)
  IN [t EXCEPT !.rowCount = t.rowCount + 1,
               !.closedRow = row,
               !.processedRows =
                  IF enoughFields(row) THEN t.processedRows + 1
                  ELSE t.processedRows,
               !.courts = pushed,
               !.validCourts = t.validCourts + Len(pushed) - Len(t.courts),
               !.console =
                  IF ~enoughFields(row) THEN Append(t.console, "insufficient")
                  ELSE IF pushed = t.courts THEN Append(t.console, "skipping")
                  ELSE t.console,
               !.currentRow = <<>>,
               !.currentField = <<>>]

\* scanStep, were no court pushed once validCourts has reached 1
scanStepCounterGate(s, line) ==
  LET t == scanLine(s, line)
      row == Append(t.currentRow, trim(t.currentField))
      pushed == IF t.validCourts >= 1 THEN t.courts ELSE processRow(row, t.courts)
  IN IF ~t.inQuotes
     THEN [t EXCEPT !.rowCount = t.rowCount + 1,
                    !.closedRow = row,
                    !.processedRows =
                       IF enoughFields(row) THEN t.processedRows + 1
                       ELSE t.processedRows,
                    !.courts = pushed,
                    !.validCourts = t.validCourts + Len(pushed) - Len(t.courts),
                    !.console =
                       IF ~enoughFields(row) THEN Append(t.console, "insufficient")
                       ELSE IF pushed = t.courts THEN Append(t.console, "skipping")
                       ELSE t.console,
                    !.currentRow = <<>>,
                    !.currentField = <<>>]
     ELSE [t EXCEPT !.currentField = continued(t.currentField)]

\* the part of the loop body after the header test: the line is scanned,
\* then the row is closed or the field is continued on the next line
scanStep(s, line) ==
  LET t == scanLine(s, line)
      row == Append(t.currentRow, trim(t.currentField))
      pushed == processRow(row, t.courts)
  IN IF ~t.inQuotes
     THEN [t EXCEPT !.rowCount = t.rowCount + 1,
                    !.closedRow = row,
                    !.processedRows =
                       IF enoughFields(row) THEN t.processedRows + 1
                       ELSE t.processedRows,
                    !.courts = pushed,
                    !.validCourts = t.validCourts + Len(pushed) - Len(t.courts),
                    !.console =
                       IF ~enoughFields(row) THEN Append(t.console, "insufficient")
                       ELSE IF pushed = t.courts THEN Append(t.console, "skipping")
                       ELSE t.console,
                    !.currentRow = <<>>,
                    !.currentField = <<>>]
     ELSE [t EXCEPT !.currentField = continued(t.currentField)]

\* loopBody, were the first line scanned like the others
loopBodyNoHeader(s, line, idx) ==
  scanStep([s EXCEPT !.startParsing = TRUE], line)

\* the body of the loop for the line at 0-based index idx
loopBody(s, line, idx) ==
  IF idx = 0 THEN [s EXCEPT !.startParsing = TRUE]
  ELSE IF ~s.startParsing THEN s
  ELSE scanStep(s, line)

\* declared, were the scan state kept from one invocation to the next
declaredStale ==
  [courts |-> <<>>, currentRow |-> currentRow, currentField |-> currentField,
   inQuotes |-> inQuotes, rowCount |-> 0, processedRows |-> 0,
   validCourts |-> 0, startParsing |-> FALSE]

\* the values the declarations before the loop give to the locals
declared ==
  [courts |-> <<>>, currentRow |-> <<>>, currentField |-> <<>>,
   inQuotes |-> FALSE, rowCount |-> 0, processedRows |-> 0,
   validCourts |-> 0, startParsing |-> FALSE]

(***************************************************************************)
(* Input texts                                                             *)
(***************************************************************************)
RECURSIVE join(_, _)
join(pieces, sep) ==
  IF pieces = <<>> THEN <<>>
  ELSE IF Len(pieces) = 1 THEN pieces[1]
  ELSE pieces[1] \o <<sep>> \o join(Tail(pieces), sep)

fName == <<"C", "t", " ", "A">>
fAddress == <<"1", " ", "M">>
fBorough == <<"M">>
fSurface == <<"H">>
fPermit == <<"N", "R">>
fCourts == <<"2">>
fDates == <<"A", "p", "r">>
fHours == <<"9", "-", "9">>
fDesc == <<"N", "i", "c", "e">>
fLat == <<"4", "0", ".", "7", "0">>
fLng == <<"-", "7", "4", ".", "0", "0">>

\* Ct A,1 M,M,H,NR,2,Apr,9-9,Nice,40.70,-74.00
RowA ==
  join(<<fName, fAddress, fBorough, fSurface, fPermit, fCourts, fDates,
         fHours, fDesc, fLat, fLng>>, Comma)

\* B""b , "2, Q" ,Q,C,R,x,May,8-8,  d ,-40.5,73,extra
\* (adjacent quotes, a quoted comma, padded fields, a court count that is
\* not a number, a twelfth field)
RowB ==
  join(<<<<"B", Quote, Quote, "b", " ">>,
         <<" ", Quote, "2", Comma, " ", "Q", Quote, " ">>,
         <<"Q">>, <<"C">>, <<"R">>, <<"x">>, <<"M", "a", "y">>,
         <<"8", "-", "8">>, <<" ", " ", "d", " ">>,
         <<"-", "4", "0", ".", "5">>, <<"7", "3">>,
         <<"e", "x", "t", "r", "a">>>>, Comma)

\* the first ten fields of RowA
Row10 ==
  join(<<fName, fAddress, fBorough, fSurface, fPermit, fCourts, fDates,
         fHours, fLat, fLng>>, Comma)

\* nine fields
Row9 ==
  join(<<fName, fAddress, fBorough, fSurface, fPermit, fCourts, fDates,
         fLat, fLng>>, Comma)

\* RowA with the latitude N/A
RowNA ==
  join(<<fName, fAddress, fBorough, fSurface, fPermit, fCourts, fDates,
         fHours, fDesc, <<"N", "/", "A">>, fLng>>, Comma)

\* RowA with the longitude 0.0
RowZero ==
  join(<<fName, fAddress, fBorough, fSurface, fPermit, fCourts, fDates,
         fHours, fDesc, fLat, <<"0", ".", "0">>>>, Comma)

\* RowA with a name of white space only
RowNoName ==
  join(<<<<" ", " ">>, fAddress, fBorough, fSurface, fPermit, fCourts, fDates,
         fHours, fDesc, fLat, fLng>>, Comma)

\* Ct H,1 M,M,H,NR,2,Apr,9-9,"Ni     (the line ends inside the quoted field)
RowHead ==
  join(<<<<"C", "t", " ", "H">>, fAddress, fBorough, fSurface, fPermit,
         fCourts, fDates, fHours, <<Quote, "N", "i">>>>, Comma)

\* ce",40.70,-74.00      (closes the quoted field after more text)
RowTail == join(<<<<"c", "e", Quote>>, fLat, fLng>>, Comma)

\* ",40.70,-74.00        (closes the quoted field at once)
RowTailEdge == join(<<<<Quote>>, fLat, fLng>>, Comma)

EmptyLine == <<>>

PlainHeader == join(<<<<"n", "a", "m", "e">>, <<"l", "a", "t">>>>, Comma)

\* the first line of a text
Headers == {PlainHeader, RowA, RowHead}

\* the lines after the first
DataLines ==
  {RowA, RowB, Row10, Row9, RowNA, RowZero, RowNoName, RowHead, RowTail,
   RowTailEdge, EmptyLine}

RECURSIVE SeqsUpTo(_, _)
SeqsUpTo(S, n) ==
  IF n = 0 THEN {<<>>}
  ELSE LET shorter == SeqsUpTo(S, n - 1)
       IN shorter \cup {Append(q, x) : q \in shorter, x \in S}

\* a header line followed by at most MaxDataLines lines
Texts ==
  {join(<<h>> \o body, NL) : h \in Headers, body \in SeqsUpTo(DataLines, MaxDataLines)}

\* the null of the source
null == "null"

\* the three courts of the wait-time cards and their first entries
CourtNames == {"Hudson River Park Courts", "Pier 42", "Brian Watkins Courts"}

initialWaitTimes ==
  [c \in CourtNames |->
     IF c = "Hudson River Park Courts"
       THEN [time |-> "Less than 1 hour", status |-> "green",
             lastUpdated |-> "12 min ago"]
     ELSE IF c = "Pier 42"
       THEN [time |-> "1-2 hours", status |-> "yellow",
             lastUpdated |-> "45 min ago"]
     ELSE [time |-> "More than 2 hours", status |-> "red",
           lastUpdated |-> "1 hour ago"]]

\* loadCourtsData has not been called
notCalled ==
  /\ pc = "idle"
  /\ calls = 0
  /\ settled = <<>>
  /\ lines = <<>>
  /\ i = 0
  /\ currentRow = <<>>
  /\ currentField = <<>>
  /\ inQuotes = FALSE
  /\ rowCount = 0
  /\ processedRows = 0
  /\ validCourts = 0
  /\ startParsing = FALSE
  /\ courts = <<>>
  /\ closedRow = <<>>
  /\ console = <<>>

\* MediaContent after its first render: the values given to useState
mounted ==
  /\ selectedBoroughs = <<>>
  /\ selectedSurfaces = <<>>
  /\ selectedPermitStatuses = <<>>
  /\ stateCourts = <<>>
  /\ loading = TRUE
  /\ waitTimes = initialWaitTimes
  /\ reporting = null
  /\ reportSuccess = null
  /\ timeUpdate = 0
  /\ checked = {}
  /\ pending = <<>>
  /\ timers = 0
  /\ alerts = 0
  /\ reported = 0
  /\ map = null
  /\ markers = <<>>
  /\ attached = {}
  /\ runs = 0

\* no GooeyText is rendered (demo.tsx has none): the values are those of
\* a GooeyText with no text that is never ticked
noGooeyText ==
  /\ texts = <<>>
  /\ currentTextIndex = Zero

Init ==
  /\ resource \in Texts
  /\ notCalled
  /\ mounted
  /\ noGooeyText

(***************************************************************************)
(* loadCourtsData: the steps of an invocation                              *)
(***************************************************************************)
\* the call made when the page is mounted: fetch is started and the
\* promise is pending
Invoke ==
  /\ pc = "idle"
  /\ calls = 0
  /\ calls' = calls + 1
  /\ pc' = "fetch"
  /\ UNCHANGED <<resource, settled, console>>
  /\ UNCHANGED locals
  /\ UNCHANGED page
  /\ UNCHANGED mapComponent
  /\ UNCHANGED gooeyText

\* catch, were the error thrown again
catchRethrow(error) == [state |-> "rejected", value |-> <<>>, fetched |-> FALSE]

\* how the catch block settles the promise of the async function
catch(error) == [state |-> "fulfilled", value |-> <<>>, fetched |-> FALSE]

\* await fetch(...) resolves with a response
FetchResolve ==
  /\ pc = "fetch"
  /\ pc' = "text"
  /\ UNCHANGED <<resource, calls, settled, console>>
  /\ UNCHANGED locals
  /\ UNCHANGED page
  /\ UNCHANGED mapComponent
  /\ UNCHANGED gooeyText

\* await fetch(...) rejects: the catch block runs
FetchReject ==
  /\ pc = "fetch"
  /\ pc' = "idle"
  /\ settled' = Append(settled, catch("fetch"))
  /\ console' = Append(console, "error")
  /\ UNCHANGED <<resource, calls>>
  /\ UNCHANGED locals
  /\ UNCHANGED page
  /\ UNCHANGED mapComponent
  /\ UNCHANGED gooeyText

\* await response.text() resolves: the text is split and the locals declared
TextResolve ==
  /\ pc = "text"
  /\ pc' = "loop"
  /\ lines' = split(resource, NL)
  /\ courts' = declared.courts
  /\ currentRow' = declared.currentRow
  /\ currentField' = declared.currentField
  /\ inQuotes' = declared.inQuotes
  /\ rowCount' = declared.rowCount
  /\ processedRows' = declared.processedRows
  /\ validCourts' = declared.validCourts
  /\ startParsing' = declared.startParsing
  /\ i' = 0
  /\ UNCHANGED <<resource, calls, settled, console, closedRow>>
  /\ UNCHANGED page
  /\ UNCHANGED mapComponent
  /\ UNCHANGED gooeyText

\* await response.text() rejects: the catch block runs
TextReject ==
  /\ pc = "text"
  /\ pc' = "idle"
  /\ settled' = Append(settled, catch("text"))
  /\ console' = Append(console, "error")
  /\ UNCHANGED <<resource, calls>>
  /\ UNCHANGED locals
  /\ UNCHANGED page
  /\ UNCHANGED mapComponent
  /\ UNCHANGED gooeyText

\* the local variables as a record
localState ==
  [courts |-> courts, currentRow |-> currentRow, currentField |-> currentField,
   inQuotes |-> inQuotes, rowCount |-> rowCount,
   processedRows |-> processedRows, validCourts |-> validCourts,
   startParsing |-> startParsing, closedRow |-> closedRow,
   console |-> console]

\* one iteration of the loop over the lines (i is the 0-based index)
LoopIter ==
  /\ pc = "loop"
  /\ i < Len(lines)
  /\ LET s == loopBody(localState, lines[i + 1], i)
     IN /\ courts' = s.courts
        /\ currentRow' = s.currentRow
        /\ currentField' = s.currentField
        /\ inQuotes' = s.inQuotes
        /\ rowCount' = s.rowCount
        /\ processedRows' = s.processedRows
        /\ validCourts' = s.validCourts
        /\ startParsing' = s.startParsing
        /\ closedRow' = s.closedRow
        /\ console' = s.console
  /\ i' = i + 1
  /\ UNCHANGED <<resource, pc, calls, settled, lines>>
  /\ UNCHANGED page
  /\ UNCHANGED mapComponent
  /\ UNCHANGED gooeyText

\* the loop is over: the summary is logged and courts is returned
Return ==
  /\ pc = "loop"
  /\ i >= Len(lines)
  /\ pc' = "idle"
  /\ settled' = Append(settled, [state |-> "fulfilled", value |-> courts,
                                 fetched |-> TRUE])
  /\ console' = Append(console, "summary")
  /\ UNCHANGED <<resource, calls>>
  /\ UNCHANGED locals
  /\ UNCHANGED page
  /\ UNCHANGED mapComponent
  /\ UNCHANGED gooeyText

Next ==
  \/ Invoke
  \/ FetchResolve
  \/ FetchReject
  \/ TextResolve
  \/ TextReject
  \/ LoopIter
  \/ Return

\* one invocation of loadCourtsData
Spec == Init /\ [][Next]_vars

\* one invocation whose synchronous part, once entered, runs to its end
SpecScan ==
  /\ Init
  /\ [][Next]_vars
  /\ WF_i(pc = "loop" /\ i < Len(lines) /\ i' = i + 1)
  /\ WF_vars(Return)

\* a further call of the function after an earlier call has settled
Reinvoke ==
  /\ pc = "idle"
  /\ calls > 0
  /\ calls < MaxCalls
  /\ calls' = calls + 1
  /\ pc' = "fetch"
  /\ UNCHANGED <<resource, settled, console>>
  /\ UNCHANGED locals
  /\ UNCHANGED page
  /\ UNCHANGED mapComponent
  /\ UNCHANGED gooeyText

NextAgain ==
  \/ Next
  \/ Reinvoke

\* up to MaxCalls invocations of loadCourtsData, one after the other
SpecAgain == Init /\ [][NextAgain]_vars

(***************************************************************************)
(* The page: MediaContent and MapComponent                                 *)
(***************************************************************************)
Manhattan == <<"M", "a", "n", "h", "a", "t", "t", "a", "n">>
Queens == <<"Q", "u", "e", "e", "n", "s">>
Hard == <<"H", "a", "r", "d">>
Clay == <<"C", "l", "a", "y">>
NotRequired == <<"N", "o", "t", " ", "R", "e", "q", "u", "i", "r", "e", "d">>
Enforced ==
  <<"R", "e", "q", "u", "i", "r", "e", "d", " ", "&", " ",
    "E", "n", "f", "o", "r", "c", "e", "d">>

\* the values of the filter checkboxes that are changed here
Boroughs == {Manhattan}
Surfaces == {Hard}
PermitStatuses == {NotRequired}

\* a line of the resource for a court of the page
pageRow(name, borough, surface, permitStatus) ==
  join(<<name, fAddress, borough, surface, permitStatus, fCourts, fDates,
         fHours, fDesc, fLat, fLng>>, Comma)

\* Ct A in Manhattan (clay, no permit), Ct B in Queens (hard, permit)
PageText ==
  join(<<PlainHeader,
         pageRow(fName, Manhattan, Clay, NotRequired),
         pageRow(<<"C", "t", " ", "B">>, Queens, Hard, Enforced)>>, NL)

\* the resources served to the page
PageTexts == {PageText}

\* what the select of a card holds when its Report button is clicked, and
\* '' for a select that is not in the document
WaitTimeInputs == {"", "Select wait time...", "2-3 hours"}

InitPage ==
  /\ resource \in PageTexts
  /\ notCalled
  /\ mounted
  /\ noGooeyText

\* array.includes(x)
includes(array, x) == \E k \in DOMAIN array : array[k] = x

\* filteredCourts, were one matching category enough
filteredCourtsAny(cs, boroughs, surfaces, permitStatuses) ==
  LET boroughMatch(court) == Len(boroughs) = 0 \/ includes(boroughs, court.borough)
      surfaceMatch(court) == Len(surfaces) = 0 \/ includes(surfaces, court.surface)
      permitMatch(court) ==
        Len(permitStatuses) = 0 \/ includes(permitStatuses, court.permitStatus)
      keep(court) == boroughMatch(court) \/ surfaceMatch(court) \/ permitMatch(court)
  IN SelectSeq(cs, keep)

\* the value of the useMemo of MapComponent
filteredCourts(cs, boroughs, surfaces, permitStatuses) ==
  LET boroughMatch(court) == Len(boroughs) = 0 \/ includes(boroughs, court.borough)
      surfaceMatch(court) == Len(surfaces) = 0 \/ includes(surfaces, court.surface)
      permitMatch(court) ==
        Len(permitStatuses) = 0 \/ includes(permitStatuses, court.permitStatus)
      keep(court) == boroughMatch(court) /\ surfaceMatch(court) /\ permitMatch(court)
  IN SelectSeq(cs, keep)

\* the marker effect, were the markers of the run before left on the map
markerEffectKeeping(theMap, shown) ==
  IF theMap = null
    THEN [markers |-> markers, attached |-> attached, runs |-> runs]
    ELSE LET newMarkers ==
               [k \in DOMAIN shown |->
                  [title |-> shown[k].name, court |-> shown[k].id,
                   run |-> runs + 1]]
         IN [markers |-> newMarkers,
             attached |-> attached \cup {newMarkers[k] : k \in DOMAIN newMarkers},
             runs |-> runs + 1]

\* the effect of MapComponent on [map, filteredCourts], run after a render
\* that changed one of the two: MapComponent's markers, the markers on the
\* map and the count of runs after it; run tells the markers of one run
\* from those of another
markerEffect(theMap, shown) ==
  IF theMap = null
    THEN [markers |-> markers, attached |-> attached, runs |-> runs]
    ELSE LET newMarkers ==
               [k \in DOMAIN shown |->
                  [title |-> shown[k].name, court |-> shown[k].id,
                   run |-> runs + 1]]
         IN [markers |-> newMarkers,
             attached |-> (attached \ {markers[k] : k \in DOMAIN markers})
                            \cup {newMarkers[k] : k \in DOMAIN newMarkers},
             runs |-> runs + 1]

\* the render that follows a change of a selection, and its effect
rendered(boroughs, surfaces, permitStatuses) ==
  markerEffect(map, filteredCourts(stateCourts, boroughs, surfaces,
                                   permitStatuses))

\* the effect run at mount: loadData sets loading and calls loadCourtsData,
\* which starts the fetch
loadData ==
  /\ pc = "idle"
  /\ calls = 0
  /\ loading' = TRUE
  /\ calls' = calls + 1
  /\ pc' = "fetch"
  /\ UNCHANGED <<resource, settled, console>>
  /\ UNCHANGED locals
  /\ UNCHANGED mapComponent
  /\ UNCHANGED gooeyText
  /\ UNCHANGED <<selectedBoroughs, selectedSurfaces, selectedPermitStatuses,
                 stateCourts, waitTimes, reporting, reportSuccess, timeUpdate,
                 checked, pending, timers, alerts, reported>>

\* loadData after its await, were loading left as it is
loadDataResumeStillLoading ==
  /\ loading
  /\ Len(settled) = 1
  /\ settled[1].state = "fulfilled"
  /\ stateCourts' = settled[1].value
  /\ UNCHANGED loading
  /\ UNCHANGED loader
  /\ UNCHANGED gooeyText
  /\ UNCHANGED mapComponent
  /\ UNCHANGED <<selectedBoroughs, selectedSurfaces, selectedPermitStatuses,
                 waitTimes, reporting, reportSuccess, timeUpdate, checked,
                 pending, timers, alerts, reported>>

\* loadData after its await: the value of the promise is stored
loadDataResume ==
  /\ loading
  /\ Len(settled) = 1
  /\ settled[1].state = "fulfilled"
  /\ stateCourts' = settled[1].value
  /\ loading' = FALSE
  /\ UNCHANGED loader
  /\ UNCHANGED gooeyText
  /\ UNCHANGED mapComponent
  /\ UNCHANGED <<selectedBoroughs, selectedSurfaces, selectedPermitStatuses,
                 waitTimes, reporting, reportSuccess, timeUpdate, checked,
                 pending, timers, alerts, reported>>

\* no task is running: the loop of loadCourtsData, and loadData after the
\* promise has settled, run to their end before a handler or a timer does
betweenTasks == pc # "loop" /\ ~(loading /\ settled # <<>>)

\* changed, were the value appended on every change
changedAppending(prev, value, isChecked) == Append(prev, value)

\* the callback ref of MapComponent's div, called when the component is
\* rendered (the page has an API key, the load has ended and the script of
\* the map is there): the map is made, and the render that follows setMap
\* runs the marker effect
mapRef ==
  /\ betweenTasks
  /\ ~loading
  /\ map = null
  /\ map' = "map"
  /\ LET after == markerEffect("map", filteredCourts(stateCourts, selectedBoroughs,
                                  selectedSurfaces, selectedPermitStatuses))
     IN /\ markers' = after.markers
        /\ attached' = after.attached
        /\ runs' = after.runs
  /\ UNCHANGED loader
  /\ UNCHANGED gooeyText
  /\ UNCHANGED page

\* the updater given to setSelectedBoroughs, setSelectedSurfaces and
\* setSelectedPermitStatuses, applied to prev
changed(prev, value, isChecked) ==
  LET other(x) == x # value
  IN IF isChecked THEN Append(prev, value) ELSE SelectSeq(prev, other)

\* a click on a checkbox: the document toggles it and onChange passes on
\* its new state
toggled(id, value) ==
  IF <<id, value>> \in checked
    THEN checked \ {<<id, value>>}
    ELSE checked \cup {<<id, value>>}

handleBoroughChange ==
  \E borough \in Boroughs :
    /\ betweenTasks
    /\ (map # null) => (runs < MaxRuns)
    /\ checked' = toggled("borough", borough)
    /\ selectedBoroughs' =
         changed(selectedBoroughs, borough, <<"borough", borough>> \in checked')
    /\ LET after == rendered(selectedBoroughs', selectedSurfaces, selectedPermitStatuses)
       IN /\ markers' = after.markers
          /\ attached' = after.attached
          /\ runs' = after.runs
    /\ UNCHANGED map
    /\ UNCHANGED loader
    /\ UNCHANGED gooeyText
    /\ UNCHANGED <<selectedSurfaces, selectedPermitStatuses, stateCourts,
                   loading, waitTimes, reporting, reportSuccess, timeUpdate,
                   pending, timers, alerts, reported>>

handleSurfaceChange ==
  \E surface \in Surfaces :
    /\ betweenTasks
    /\ (map # null) => (runs < MaxRuns)
    /\ checked' = toggled("surface", surface)
    /\ selectedSurfaces' =
         changed(selectedSurfaces, surface, <<"surface", surface>> \in checked')
    /\ LET after == rendered(selectedBoroughs, selectedSurfaces', selectedPermitStatuses)
       IN /\ markers' = after.markers
          /\ attached' = after.attached
          /\ runs' = after.runs
    /\ UNCHANGED map
    /\ UNCHANGED loader
    /\ UNCHANGED gooeyText
    /\ UNCHANGED <<selectedBoroughs, selectedPermitStatuses, stateCourts,
                   loading, waitTimes, reporting, reportSuccess, timeUpdate,
                   pending, timers, alerts, reported>>

handlePermitStatusChange ==
  \E permitStatus \in PermitStatuses :
    /\ betweenTasks
    /\ (map # null) => (runs < MaxRuns)
    /\ checked' = toggled("permit", permitStatus)
    /\ selectedPermitStatuses' =
         changed(selectedPermitStatuses, permitStatus,
                 <<"permit", permitStatus>> \in checked')
    /\ LET after == rendered(selectedBoroughs, selectedSurfaces, selectedPermitStatuses')
       IN /\ markers' = after.markers
          /\ attached' = after.attached
          /\ runs' = after.runs
    /\ UNCHANGED map
    /\ UNCHANGED loader
    /\ UNCHANGED gooeyText
    /\ UNCHANGED <<selectedBoroughs, selectedSurfaces, stateCourts, loading,
                   waitTimes, reporting, reportSuccess, timeUpdate, pending,
                   timers, alerts, reported>>

\* waitTime.includes(text) for the values of WaitTimeInputs and of the
\* first entries, none of which holds another one
includesText(waitTime, text) == waitTime = text

getStatusFromWaitTime(waitTime) ==
  IF includesText(waitTime, "Less than 1 hour") THEN "green"
  ELSE IF includesText(waitTime, "1-2 hours") THEN "yellow"
  ELSE IF includesText(waitTime, "2-3 hours") THEN "orange"
  ELSE IF includesText(waitTime, "More than 3 hours") THEN "red"
  ELSE "gray"

\* handleReportWaitTime, were only the empty wait time rejected
handleReportWaitTimeEmptyOnly ==
  \E courtName \in CourtNames, waitTime \in WaitTimeInputs :
    /\ betweenTasks
    /\ reporting # courtName
    /\ reported < MaxReports
    /\ reported' = reported + 1
    /\ IF waitTime = ""
         THEN /\ alerts' = alerts + 1
              /\ UNCHANGED <<reporting, pending>>
         ELSE /\ reporting' = courtName
              /\ pending' = Append(pending, [courtName |-> courtName,
                                             waitTime |-> waitTime,
                                             waitTimes |-> waitTimes])
              /\ UNCHANGED alerts
    /\ UNCHANGED loader
    /\ UNCHANGED gooeyText
    /\ UNCHANGED mapComponent
    /\ UNCHANGED <<selectedBoroughs, selectedSurfaces, selectedPermitStatuses,
                   stateCourts, loading, waitTimes, reportSuccess, timeUpdate,
                   checked, timers>>

\* a click on the Report button of a card, which is disabled while
\* reporting is the court of the card: handleReportWaitTime up to its await
handleReportWaitTime ==
  \E courtName \in CourtNames, waitTime \in WaitTimeInputs :
    /\ betweenTasks
    /\ reporting # courtName
    /\ reported < MaxReports
    /\ reported' = reported + 1
    /\ IF waitTime = "" \/ waitTime = "Select wait time..."
         THEN /\ alerts' = alerts + 1
              /\ UNCHANGED <<reporting, pending>>
         ELSE /\ reporting' = courtName
              /\ pending' = Append(pending, [courtName |-> courtName,
                                             waitTime |-> waitTime,
                                             waitTimes |-> waitTimes])
              /\ UNCHANGED alerts
    /\ UNCHANGED loader
    /\ UNCHANGED gooeyText
    /\ UNCHANGED mapComponent
    /\ UNCHANGED <<selectedBoroughs, selectedSurfaces, selectedPermitStatuses,
                   stateCourts, loading, waitTimes, reportSuccess, timeUpdate,
                   checked, timers>>

\* the entry written by a report
entry(waitTime) ==
  [time |-> waitTime, status |-> getStatusFromWaitTime(waitTime),
   lastUpdated |-> "Just now"]

\* handleReportWaitTime after its await, were courts cleared with it
handleReportWaitTimeResumeClearing ==
  /\ betweenTasks
  /\ pending # <<>>
  /\ LET call == Head(pending)
     IN /\ waitTimes' = [call.waitTimes EXCEPT ![call.courtName] = entry(call.waitTime)]
        /\ reportSuccess' = call.courtName
  /\ reporting' = null
  /\ timers' = timers + 1
  /\ pending' = Tail(pending)
  /\ stateCourts' = <<>>
  /\ UNCHANGED loader
  /\ UNCHANGED gooeyText
  /\ UNCHANGED mapComponent
  /\ UNCHANGED <<selectedBoroughs, selectedSurfaces, selectedPermitStatuses,
                 loading, timeUpdate, checked, alerts, reported>>

\* handleReportWaitTime after its await: the 1000 ms timer of the oldest
\* pending call fires; waitTimes is the value the call closed over
handleReportWaitTimeResume ==
  /\ betweenTasks
  /\ pending # <<>>
  /\ LET call == Head(pending)
     IN /\ waitTimes' = [call.waitTimes EXCEPT ![call.courtName] = entry(call.waitTime)]
        /\ reportSuccess' = call.courtName
  /\ reporting' = null
  /\ timers' = timers + 1
  /\ pending' = Tail(pending)
  /\ UNCHANGED loader
  /\ UNCHANGED gooeyText
  /\ UNCHANGED mapComponent
  /\ UNCHANGED <<selectedBoroughs, selectedSurfaces, selectedPermitStatuses,
                 stateCourts, loading, timeUpdate, checked, alerts, reported>>

\* a 3000 ms timer fires
clearReportSuccess ==
  /\ betweenTasks
  /\ timers > 0
  /\ timers' = timers - 1
  /\ reportSuccess' = null
  /\ UNCHANGED loader
  /\ UNCHANGED gooeyText
  /\ UNCHANGED mapComponent
  /\ UNCHANGED <<selectedBoroughs, selectedSurfaces, selectedPermitStatuses,
                 stateCourts, loading, waitTimes, reporting, timeUpdate,
                 checked, pending, alerts, reported>>

\* the minute timer fires
minuteTick ==
  /\ betweenTasks
  /\ timeUpdate < MaxTicks
  /\ timeUpdate' = timeUpdate + 1
  /\ UNCHANGED loader
  /\ UNCHANGED gooeyText
  /\ UNCHANGED mapComponent
  /\ UNCHANGED <<selectedBoroughs, selectedSurfaces, selectedPermitStatuses,
                 stateCourts, loading, waitTimes, reporting, reportSuccess,
                 checked, pending, timers, alerts, reported>>

NextPage ==
  \/ loadData
  \/ FetchResolve
  \/ FetchReject
  \/ TextResolve
  \/ TextReject
  \/ LoopIter
  \/ Return
  \/ loadDataResume
  \/ handleBoroughChange
  \/ handleSurfaceChange
  \/ handlePermitStatusChange
  \/ handleReportWaitTime
  \/ handleReportWaitTimeResume
  \/ clearReportSuccess
  \/ minuteTick

\* the page from its mount on
SpecPage == InitPage /\ [][NextPage]_vars

\* the load at mount, with filter changes and ticks of the minute timer
\* going on
NextLoad ==
  \/ loadData
  \/ FetchResolve
  \/ FetchReject
  \/ TextResolve
  \/ TextReject
  \/ LoopIter
  \/ Return
  \/ loadDataResume
  \/ handleBoroughChange
  \/ handleSurfaceChange
  \/ handlePermitStatusChange
  \/ minuteTick

\* the page with an API key: the load, the filters and the map
NextMap ==
  \/ loadData
  \/ FetchResolve
  \/ FetchReject
  \/ TextResolve
  \/ TextReject
  \/ LoopIter
  \/ Return
  \/ loadDataResume
  \/ mapRef
  \/ handleBoroughChange
  \/ handleSurfaceChange
  \/ handlePermitStatusChange

SpecMap == InitPage /\ [][NextMap]_vars

\* a step of LoopIter, by what it does to i
nextLine == pc = "loop" /\ i < Len(lines) /\ i' = i + 1

\* the effect is run after the first render, the loop and the return are
\* synchronous code and loadData resumes in a microtask: none of them waits
\* for ever; nothing makes the response or its text arrive
SpecLoad ==
  /\ InitPage
  /\ [][NextLoad]_vars
  /\ WF_vars(loadData)
  /\ WF_i(nextLine)
  /\ WF_vars(Return)
  /\ WF_vars(loadDataResume)

(***************************************************************************)
(* The component GooeyText                                                 *)
(***************************************************************************)
\* the arrays given as the prop texts
TextArrays == SeqsUpTo({"A", "B"}, MaxTexts)

\* a GooeyText after its first render, with some text to show
InitGooey ==
  /\ resource \in PageTexts
  /\ notCalled
  /\ mounted
  /\ texts \in TextArrays \ {<<>>}
  /\ currentTextIndex = Zero

\* (prevIndex + 1) % length: NaN for a prevIndex that is NaN and for the
\* length 0
nextIndex(prevIndex, length) ==
  IF prevIndex.nan \/ length = 0
    THEN NaN
    ELSE Num((prevIndex.m + 1) % length, 0)

\* the interval fires: texts is the array of the render that started the
\* interval, which is the last one, the effect being run again for a new
\* array
tick ==
  /\ currentTextIndex' = nextIndex(currentTextIndex, Len(texts))
  /\ UNCHANGED texts
  /\ UNCHANGED <<loader, page, mapComponent>>

\* the parent renders the component with another array
newTexts ==
  /\ texts' \in TextArrays \ {texts}
  /\ UNCHANGED currentTextIndex
  /\ UNCHANGED <<loader, page, mapComponent>>

NextGooey ==
  \/ tick
  \/ newTexts

SpecGooey == InitGooey /\ [][NextGooey]_vars

(***************************************************************************)
(* The whole scan as a function of the text                                *)
(***************************************************************************)
\* the loop over the lines ls from 0-based index idx
RECURSIVE loopFrom(_, _, _)
loopFrom(s, ls, idx) ==
  IF idx >= Len(ls) THEN s
  ELSE LET next == loopBody(s, ls[idx + 1], idx)
       IN IF next.inQuotes \in BOOLEAN
          THEN loopFrom(next, ls, idx + 1)
          ELSE next

\* the locals at the end of the loop when the text has been read
scan(text) ==
  loopFrom(declared @@ [closedRow |-> <<>>, console |-> <<>>],
           split(text, NL), 0)

\* the array returned by loadCourtsData when the text has been read
parse(text) == scan(text).courts

(***************************************************************************)
(* The scan without its reporting: the loop of loadCourtsData with the     *)
(* counters rowCount, processedRows and validCourts and every console call *)
(* left out                                                                *)
(***************************************************************************)
bareStep(s, line) ==
  LET t == scanLine(s, line)
      row == Append(t.currentRow, trim(t.currentField))
  IN IF ~t.inQuotes
     THEN [t EXCEPT !.courts = processRow(row, t.courts),
                    !.currentRow = <<>>,
                    !.currentField = <<>>]
     ELSE [t EXCEPT !.currentField = continued(t.currentField)]

bareBody(s, line, idx) ==
  IF idx = 0 THEN [s EXCEPT !.startParsing = TRUE]
  ELSE IF ~s.startParsing THEN s
  ELSE bareStep(s, line)

RECURSIVE bareFrom(_, _, _)
bareFrom(s, ls, idx) ==
  IF idx >= Len(ls) THEN s
  ELSE LET next == bareBody(s, ls[idx + 1], idx)
       IN IF next.inQuotes \in BOOLEAN
          THEN bareFrom(next, ls, idx + 1)
          ELSE next

parseBare(text) ==
  bareFrom([courts |-> <<>>, currentRow |-> <<>>, currentField |-> <<>>,
            inQuotes |-> FALSE, startParsing |-> FALSE],
           split(text, NL), 0).courts

(***************************************************************************)
(* Properties                                                              *)
(***************************************************************************)
\* the values with which the invocations whose text was read have resolved
Returned == {settled[n].value : n \in {m \in DOMAIN settled : settled[m].fetched}}

\* the characters of a text
Chars(text) == {text[k] : k \in DOMAIN text}

\* the number of quote characters of a line
QuoteCount(line) == Cardinality({k \in DOMAIN line : line[k] = Quote})

\* the step is an iteration of the loop over the lines
LoopStep == pc = "loop" /\ pc' = "loop" /\ i' = i + 1

\* the step closes a row
ClosesRow == pc = "loop" /\ pc' = "loop" /\ rowCount' = rowCount + 1

\* C1: every record in the array courts, and so every record returned by
\* loadCourtsData, has a non-empty name, a latitude other than 0 and a
\* longitude other than 0.
C1_Retention ==
  \A cs \in Returned \cup {courts} :
    \A k \in DOMAIN cs :
      /\ cs[k].name # <<>>
      /\ cs[k].lat.m # 0
      /\ cs[k].lng.m # 0

\* C1 witness: an invocation has returned a record although a row with
\* eleven fields was skipped.
C1_Witness ==
  /\ \E cs \in Returned : cs # <<>>
  /\ \E k \in DOMAIN console : console[k] = "skipping"

\* C2: a step that closes a row of fewer than 11 fields leaves courts as it
\* was.
C2_ShortRowDropped ==
  [][(ClosesRow /\ Len(closedRow') < 11) => courts' = courts]_vars

\* C2 witness: rows of ten fields and of nine fields, with the contents of
\* a valid row, have been closed and nothing has been returned.
C2_Witness ==
  /\ pc = "idle"
  /\ rowCount = 2
  /\ Len(closedRow) \in {9, 10}
  /\ closedRow[1] = fName
  /\ Tail(lines) = <<Row10, Row9>>
  /\ Returned = {<<>>}

\* C3 as stated: when a row closes on a line that began inside a quoted
\* field, the field that spans the line break holds a newline character and
\* the step adds at most one record.
C3_AsStated ==
  [][(inQuotes /\ ClosesRow) =>
       /\ NL \in Chars(closedRow'[Len(currentRow) + 1])
       /\ Len(courts') <= Len(courts) + 1]_vars

\* C3 amended: a line that begins inside a quoted field and holds an odd
\* number of quotes closes the row; when a row closes on a line that began
\* inside a quoted field the step adds at most one record, and the field
\* that spans the line break begins with the text before the break followed
\* by the newline, provided that text is not white space only and text other
\* than white space follows the break in the field.
C3_Reassembled ==
  [][/\ (LoopStep /\ inQuotes /\ QuoteCount(lines[i + 1]) % 2 = 1) => ClosesRow
     /\ (inQuotes /\ ClosesRow) =>
          LET f == closedRow'[Len(currentRow) + 1]
              before == trimStart(currentField)
          IN /\ Len(courts') <= Len(courts) + 1
             /\ (trim(currentField) # <<>> /\ Len(f) > Len(trim(currentField))) =>
                  /\ NL \in Chars(f)
                  /\ SubSeq(f, 1, Len(before)) = before]_vars

\* C3 witness: the two lines of a row whose description is quoted and broken
\* after "Ni" have given one record with the description Ni, newline, ce.
C3_Witness ==
  /\ pc = "idle"
  /\ rowCount = 1
  /\ Len(lines) = 3
  /\ \E cs \in Returned :
       /\ Len(cs) = 1
       /\ cs[1].description = <<"N", "i", NL, "c", "e">>

\* C4: the record at position k of courts, and of every returned array, has
\* id k.
C4_Ids ==
  \A cs \in Returned \cup {courts} :
    \A k \in DOMAIN cs : cs[k].id = k

\* C4 witness: two rows were closed, the first was dropped, and the record
\* of the second was returned with id 1.
C4_Witness ==
  /\ pc = "idle"
  /\ rowCount = 2
  /\ enoughFields(closedRow)
  /\ \E cs \in Returned : Len(cs) = 1 /\ cs[1].name = closedRow[1] /\ cs[1].id = 1

\* C5: an iteration of the loop leaves courts as it was or appends to it the
\* record of the row it has just closed, lines being taken in input order;
\* the array returned is courts.
C5_InputOrder ==
  [][/\ LoopStep =>
          \/ courts' = courts
          \/ /\ ClosesRow
             /\ Len(courts') = Len(courts) + 1
             /\ SubSeq(courts', 1, Len(courts)) = courts
             /\ courts'[Len(courts')].name = closedRow'[1]
     /\ (pc = "loop" /\ pc' = "idle") =>
          settled'[Len(settled')].value = courts]_vars

\* C5 witness: two records were returned, the record of the second line
\* before the record of the third.
C5_Witness ==
  /\ pc = "idle"
  /\ Len(lines) = 3
  /\ Tail(lines) = <<RowA, RowB>>
  /\ \E cs \in Returned :
       /\ Len(cs) = 2
       /\ cs[1].name = fName
       /\ cs[2].name = <<"B", "b">>

\* C6: an invocation whose fetch or whose read of the text failed has
\* resolved with the empty array; no invocation has rejected.
C6_FailSoft ==
  \A n \in DOMAIN settled :
    /\ settled[n].state # "rejected"
    /\ ~settled[n].fetched =>
         (settled[n].state = "fulfilled" /\ settled[n].value = <<>>)

\* C6 witness: the fetch or the read of a text with a valid row has failed
\* and the invocation has settled.
C6_Witness ==
  /\ pc = "idle"
  /\ \E k \in 2..Len(split(resource, NL)) : split(resource, NL)[k] = RowA
  /\ \E n \in DOMAIN settled : ~settled[n].fetched

\* C7: after the iteration for the first line the locals are as declared,
\* and the array returned is the one returned for the same text with any
\* other first line.
C7_HeaderDiscarded ==
  /\ (pc = "loop" /\ i = 1) =>
       /\ courts = <<>> /\ currentRow = <<>> /\ currentField = <<>>
       /\ ~inQuotes /\ rowCount = 0
  /\ \A cs \in Returned :
       \A h \in Headers :
         cs = parse(join(<<h>> \o Tail(split(resource, NL)), NL))

\* C7 witness: the first line is a valid row, records were returned and none
\* of them is the record of the first line.
C7_Witness ==
  /\ pc = "idle"
  /\ lines # <<>>
  /\ lines[1] = RowA
  /\ \E cs \in Returned :
       /\ cs # <<>>
       /\ \A k \in DOMAIN cs : cs[k].name # fName

\* C8: all the invocations that have read the text have returned the same
\* array.
C8_Idempotent ==
  \A m, n \in DOMAIN settled :
    (settled[m].fetched /\ settled[n].fetched) => settled[m].value = settled[n].value

\* C8 witness: two invocations have read a text that ends inside a quoted
\* field and have returned a record.
C8_Witness ==
  /\ pc = "idle"
  /\ inQuotes
  /\ Cardinality({n \in DOMAIN settled : settled[n].fetched}) >= 2
  /\ \E cs \in Returned : cs # <<>>

\* a field made of digits, points and minus signs with a digit other than 0
NonZeroNumeric(f) ==
  /\ Chars(f) \subseteq Digits \cup {".", "-"}
  /\ Chars(f) \cap (Digits \ {"0"}) # {}

\* C9: for a text of a header line and one line of 11 unquoted fields with a
\* non-empty first field and non-zero numeric 10th and 11th fields, the
\* array returned holds one record, with id 1 and the text fields of
\* positions 1 to 5 and 7 to 9 in that order; for the line
\* Ct A,1 M,M,H,NR,2,Apr,9-9,Nice,40.70,-74.00 courts is 2, lat 40.7 and
\* lng -74.
C9_Example ==
  LET ls == split(resource, NL)
      fs == split(ls[2], Comma)
  IN (/\ Len(ls) = 2
      /\ Quote \notin Chars(ls[2])
      /\ Len(fs) = 11
      /\ trim(fs[1]) # <<>>
      /\ NonZeroNumeric(fs[10])
      /\ NonZeroNumeric(fs[11])) =>
       \A cs \in Returned :
         /\ Len(cs) = 1
         /\ cs[1].id = 1
         /\ <<cs[1].name, cs[1].address, cs[1].borough, cs[1].surface,
              cs[1].permitStatus, cs[1].datesOpen, cs[1].hours,
              cs[1].description>>
            = <<trim(fs[1]), trim(fs[2]), trim(fs[3]), trim(fs[4]),
                trim(fs[5]), trim(fs[7]), trim(fs[8]), trim(fs[9])>>
         /\ cs[1].lat.m # 0 /\ cs[1].lng.m # 0
         /\ ls[2] = RowA =>
              /\ cs[1].name = <<"C", "t", " ", "A">>
              /\ cs[1].courts = Num(2, 0)
              /\ cs[1].lat = Num(407, 1)
              /\ cs[1].lng = Num(-74, 0)

\* C9 witness: the text of a header line and the line
\* Ct A,1 M,M,H,NR,2,Apr,9-9,Nice,40.70,-74.00 has been parsed and returned.
C9_Witness ==
  /\ pc = "idle"
  /\ Len(lines) = 2
  /\ Tail(lines) = <<RowA>>
  /\ Returned # {}

\* a field without any digit
NoDigit(f) == Chars(f) \cap Digits = {}

C11_CourtCount ==
  [][(/\ ClosesRow
      /\ Len(closedRow') >= 11
      /\ closedRow'[1] # <<>>
      /\ NonZeroNumeric(closedRow'[10])
      /\ NonZeroNumeric(closedRow'[11])
      /\ NoDigit(closedRow'[6])) =>
       /\ Len(courts') = Len(courts) + 1
       /\ courts'[Len(courts')].name = closedRow'[1]
       /\ courts'[Len(courts')].courts = Num(0, 0)]_vars

\* C11 witness: the row whose court count is x has been returned, with
\* courts 0.
C11_Witness ==
  /\ pc = "idle"
  /\ closedRow # <<>>
  /\ Len(closedRow) >= 11
  /\ closedRow[6] = <<"x">>
  /\ \E cs \in Returned :
       \E k \in DOMAIN cs : cs[k].name = <<"B", "b">> /\ cs[k].courts = Num(0, 0)

\* C12: the array returned is the array the scan without counters and
\* console calls returns for the same text.
C12_ReportingOnly ==
  \A cs \in Returned : cs = parseBare(resource)

\* C12 witness: a row was reported as insufficient, the summary was logged
\* and the record of the next row was returned.
C12_Witness ==
  /\ pc = "idle"
  /\ console = <<"insufficient", "summary">>
  /\ rowCount = 2
  /\ validCourts = 1
  /\ \E cs \in Returned : Len(cs) = 1

\* the positions of the commas of a line that an even (outside) or an odd
\* (inside) number of quote characters precedes
CommasOutside(line) ==
  {k \in DOMAIN line : line[k] = Comma /\ QuoteCount(SubSeq(line, 1, k)) % 2 = 0}
CommasInside(line) ==
  {k \in DOMAIN line : line[k] = Comma /\ QuoteCount(SubSeq(line, 1, k)) % 2 = 1}

\* the places of the commas in the fields of a row
CommasKept(row) ==
  UNION {{<<a, b>> : b \in {j \in DOMAIN row[a] : row[a][j] = Comma}} :
           a \in DOMAIN row}

\* C15: when a row opens and closes on one line, its number of fields is
\* the number of commas outside quotes plus one, and the commas inside
\* quotes are all kept in the field values.
C15_QuotedComma ==
  [][(LoopStep /\ ~inQuotes /\ ClosesRow) =>
       /\ Len(closedRow') = Cardinality(CommasOutside(lines[i + 1])) + 1
       /\ Cardinality(CommasKept(closedRow')) =
            Cardinality(CommasInside(lines[i + 1]))]_vars

\* C15 witness: the line with the quoted address "2, Q" was closed as a row
\* of twelve fields (it holds twelve commas) whose second field is 2, Q.
C15_Witness ==
  /\ pc = "loop"
  /\ i = 2
  /\ lines[2] = RowB
  /\ Len(closedRow) = 12
  /\ closedRow[2] = <<"2", Comma, " ", "Q">>
  /\ Len(courts) = 1

\* the first k lines of the text that was read, as a text
FirstLines(k) == join(SubSeq(lines, 1, k), NL)

\* C16: when the loop has ended inside a quoted field, the invocation has
\* resolved, and there is a line k, the last one at whose end no quoted
\* field was open, such that the array returned and the number of rows
\* closed are those of the text cut after line k: the lines after it have
\* closed no row and given no record.
C16_Unterminated ==
  (pc = "idle" /\ inQuotes) =>
     /\ \A n \in DOMAIN settled : settled[n].state = "fulfilled"
     /\ \E k \in 1..(Len(lines) - 1) :
          /\ ~scan(FirstLines(k)).inQuotes
          /\ \A j \in (k + 1)..Len(lines) : scan(FirstLines(j)).inQuotes
          /\ Returned = {scan(FirstLines(k)).courts}
          /\ rowCount = scan(FirstLines(k)).rowCount

\* C16 witness: a valid row was followed by a line that opens a quoted field
\* and never closes it; the record of the valid row alone was returned and
\* the eight fields and the text buffered after the quote are left behind.
C16_Witness ==
  /\ pc = "idle"
  /\ inQuotes
  /\ Len(currentRow) = 8
  /\ currentField = <<"N", "i", NL>>
  /\ rowCount = 1
  /\ \E cs \in Returned : Len(cs) = 1 /\ cs[1].name = fName

\* lines a+1..b of the text that was read are the lines of one row, and
\* that row was dropped
DroppedRowLines(a, b) ==
  /\ ~scan(FirstLines(a)).inQuotes
  /\ \A j \in (a + 1)..(b - 1) : scan(FirstLines(j)).inQuotes
  /\ ~scan(FirstLines(b)).inQuotes
  /\ scan(FirstLines(b)).courts = scan(FirstLines(a)).courts

\* the text that was read without its lines a+1..b
WithoutLines(a, b) ==
  join(SubSeq(lines, 1, a) \o SubSeq(lines, b + 1, Len(lines)), NL)

\* C17: after a step that closes a row the row buffer and the field buffer
\* are empty and inQuotes is false; and the array returned for a text is
\* the array returned for the same text without the lines of any one of its
\* dropped rows.
C17_DroppedRowIsolated ==
  [][/\ ClosesRow =>
          (currentRow' = <<>> /\ currentField' = <<>> /\ ~inQuotes')
     /\ (pc = "loop" /\ pc' = "idle") =>
          \A a \in 1..Len(lines) : \A b \in (a + 1)..Len(lines) :
             DroppedRowLines(a, b) => parse(WithoutLines(a, b)) = courts]_vars

\* C17 witness: a row with the longitude 0.0 was skipped and the record of
\* the row after it was returned.
C17_Witness ==
  /\ pc = "idle"
  /\ Len(lines) = 3
  /\ Tail(lines) = <<RowZero, RowA>>
  /\ console = <<"skipping", "summary">>
  /\ \E cs \in Returned : Len(cs) = 1 /\ cs[1].lng = Num(-74, 0)

\* the text fields of a record
TextFields(c) ==
  {c.name, c.address, c.borough, c.surface, c.permitStatus, c.datesOpen,
   c.hours, c.description}

\* the fields of a row
Fields(row) == {row[k] : k \in DOMAIN row}

\* C18: over the scan of a line inQuotes changes if and only if the line
\* holds an odd number of quote characters, and after it no quote character
\* is in the field buffer, in a field of the row buffer or of the row just
\* closed, or in a text field of a record of courts.
C18_QuotesToggle ==
  [][(LoopStep /\ i >= 1) =>
       /\ inQuotes' = (inQuotes # (QuoteCount(lines[i + 1]) % 2 = 1))
       /\ Quote \notin Chars(currentField')
       /\ \A f \in Fields(currentRow') \cup Fields(closedRow') :
            Quote \notin Chars(f)
       /\ \A k \in DOMAIN courts' : \A f \in TextFields(courts'[k]) :
            Quote \notin Chars(f)]_vars

\* C18 witness: the name written B""b was returned as Bb.
C18_Witness ==
  /\ pc = "idle"
  /\ Len(lines) = 2
  /\ lines[2] = RowB
  /\ SubSeq(lines[2], 1, 4) = <<"B", Quote, Quote, "b">>
  /\ \E cs \in Returned : Len(cs) = 1 /\ cs[1].name = <<"B", "b">>

\* C19: a step that closes a row of more than 11 fields does to courts what
\* it would do for the first 11 fields alone: the record made of them is
\* appended, unless the test of name and coordinates skips it.
C19_ExtraFields ==
  [][(ClosesRow /\ Len(closedRow') > 11) =>
       LET court == makeCourt(SubSeq(closedRow', 1, 11), Len(courts))
       IN courts' = IF skipped(court) THEN courts ELSE Append(courts, court)]_vars

\* C19 witness: the row of twelve fields, the last one extra, has been
\* closed and its record is in courts.
C19_Witness ==
  /\ pc = "loop"
  /\ Len(closedRow) = 12
  /\ closedRow[12] = <<"e", "x", "t", "r", "a">>
  /\ courts # <<>>
  /\ courts[Len(courts)].lng = Num(73, 0)

\* a text that neither starts nor ends with white space
Trimmed(f) == f = <<>> \/ (f[1] \notin WhiteSpace /\ f[Len(f)] \notin WhiteSpace)

\* C20: after the scan of a line no field of the row buffer or of the row
\* just closed, and no text field of a record of courts, starts or ends with
\* white space; a row of 11 fields or more whose first field is empty once
\* trimmed adds nothing to courts, and a row that opens and closes on one
\* line whose text before the first comma is white space only has an empty
\* first field.
C20_Trimmed ==
  [][LoopStep =>
       /\ \A f \in Fields(currentRow') \cup Fields(closedRow') : Trimmed(f)
       /\ \A k \in DOMAIN courts' : \A f \in TextFields(courts'[k]) : Trimmed(f)
       /\ (ClosesRow /\ Len(closedRow') >= 11 /\ closedRow'[1] = <<>>) =>
            courts' = courts
       /\ (/\ i >= 1 /\ ~inQuotes /\ ClosesRow
           /\ Chars(split(lines[i + 1], Comma)[1]) \subseteq WhiteSpace) =>
            closedRow'[1] = <<>>]_vars

\* C20 witness: the row whose name is two spaces was skipped, and the row
\* with padded fields was returned with the fields trimmed, the quoted
\* address included.
C20_Witness ==
  /\ pc = "idle"
  /\ Len(lines) = 3
  /\ Tail(lines) = <<RowNoName, RowB>>
  /\ console = <<"skipping", "summary">>
  /\ \E cs \in Returned :
       /\ Len(cs) = 1
       /\ cs[1].address = <<"2", Comma, " ", "Q">>
       /\ cs[1].description = <<"d">>

\* a step of the load or of a filter handler: it changes the state of
\* loadCourtsData, loading, courts, a selection or a checkbox
LoadOrFilterStep ==
  <<loader, loading, stateCourts, selectedBoroughs, selectedSurfaces,
    selectedPermitStatuses, checked>>' #
  <<loader, loading, stateCourts, selectedBoroughs, selectedSurfaces,
    selectedPermitStatuses, checked>>

\* C13: once loading is false the state courts is the value the call of
\* loadCourtsData settled with and no step changes it (a filter change, a
\* click on Report, the end of a report, a timer); a step of the load or
\* of a filter handler leaves waitTimes unchanged.
C13_Snapshot ==
  [][/\ ~loading => stateCourts' = stateCourts
     /\ ~loading' => (Len(settled') = 1 /\ stateCourts' = settled'[1].value)
     /\ LoadOrFilterStep => waitTimes' = waitTimes]_vars

\* C13 witness: the load has ended with two courts, a filter was set, a
\* report was written and the minute timer has fired.
C13_Witness ==
  /\ ~loading
  /\ Len(stateCourts) = 2
  /\ selectedBoroughs = <<Manhattan>>
  /\ waitTimes["Pier 42"].time = "2-3 hours"
  /\ pending = <<>>
  /\ timeUpdate = 1

\* the elements of an array
Elements(array) == {array[k] : k \in DOMAIN array}

\* a is b with some elements left out
IsSubsequence(a, b) ==
  \E f \in [DOMAIN a -> DOMAIN b] :
    /\ \A j, k \in DOMAIN a : j < k => f[j] < f[k]
    /\ \A k \in DOMAIN a : a[k] = b[f[k]]

\* C14: a court of courts is in filteredCourts if and only if each of the
\* three selections is empty or holds the court's value of its category;
\* with the three selections empty filteredCourts is courts; filteredCourts
\* is courts with some elements left out, in the order of courts.
C14_Filter ==
  LET shown == filteredCourts(stateCourts, selectedBoroughs, selectedSurfaces,
                              selectedPermitStatuses)
  IN /\ \A court \in Elements(stateCourts) :
          court \in Elements(shown) <=>
            /\ selectedBoroughs = <<>> \/ court.borough \in Elements(selectedBoroughs)
            /\ selectedSurfaces = <<>> \/ court.surface \in Elements(selectedSurfaces)
            /\ selectedPermitStatuses = <<>>
                 \/ court.permitStatus \in Elements(selectedPermitStatuses)
     /\ (selectedBoroughs = <<>> /\ selectedSurfaces = <<>>
           /\ selectedPermitStatuses = <<>>) => shown = stateCourts
     /\ IsSubsequence(shown, stateCourts)

\* C14 witness: of the two courts loaded the one in Manhattan is not hard
\* and the hard one is not in Manhattan: with both boxes checked none is
\* shown.
C14_Witness ==
  /\ ~loading
  /\ Len(stateCourts) = 2
  /\ selectedBoroughs = <<Manhattan>>
  /\ selectedSurfaces = <<Hard>>
  /\ selectedPermitStatuses = <<>>
  /\ filteredCourts(stateCourts, <<Manhattan>>, <<>>, <<>>) = <<stateCourts[1]>>
  /\ filteredCourts(stateCourts, <<>>, <<Hard>>, <<>>) = <<stateCourts[2]>>
  /\ filteredCourts(stateCourts, selectedBoroughs, selectedSurfaces,
                    selectedPermitStatuses) = <<>>

\* the response and its text have arrived, or one of the two has failed
FetchSettled == calls = 1 /\ pc \notin {"fetch", "text"}

\* C21: if the fetch of the resource settles, loading is in the end false
\* for ever; loading becomes false in the step that stores in courts the
\* value loadCourtsData settled with (the empty array when the fetch or the
\* reading of the text failed), courts is empty before that step and neither
\* courts nor loading changes after it; if the fetch is pending for ever,
\* loading is true for ever.
C21_Loading ==
  /\ (<>FetchSettled) => <>[](~loading)
  /\ (<>[](pc \in {"fetch", "text"})) => [](loading)
  /\ [][/\ (loading /\ ~loading') =>
             /\ FetchSettled
             /\ stateCourts' = settled[1].value
             /\ ~settled[1].fetched => stateCourts' = <<>>
        /\ loading' => stateCourts' = <<>>
        /\ ~loading => (~loading' /\ stateCourts' = stateCourts)]_vars

\* C21 witness: the load has ended with the two courts of the text, and
\* no box was ever checked.
C21_Witness ==
  /\ ~loading
  /\ Len(settled) = 1
  /\ settled[1].fetched
  /\ stateCourts = settled[1].value
  /\ Len(stateCourts) = 2
  /\ checked = {}
  /\ timeUpdate = 0

\* C22: once the lines are split the function returns; in the loop each
\* step moves to the next line and none goes past the last; the records
\* in courts are never more than the data lines scanned so far, and a
\* returned array has at most as many records as the text has lines after
\* the first.
C22_Terminates ==
  /\ (pc = "loop") ~> (pc = "idle" /\ settled # <<>> /\ i = Len(lines))
  /\ [][(pc = "loop" /\ pc' = "loop") =>
          (i' = i + 1 /\ i' <= Len(lines) /\ lines' = lines)]_vars
  /\ [](pc = "loop" => Len(courts) <= (IF i = 0 THEN 0 ELSE i - 1))
  /\ [](\A n \in DOMAIN settled :
          settled[n].fetched => Len(settled[n].value) <= Len(lines) - 1)

\* C22 witness: a text of three lines was scanned to its end and both of
\* its data lines gave a record.
C22_Witness ==
  /\ pc = "idle"
  /\ Len(lines) = 3
  /\ i = 3
  /\ Len(settled) = 1
  /\ settled[1].fetched
  /\ Len(settled[1].value) = 2

\* the step in which the oldest pending report ends
ReportEnds == pending # <<>> /\ pending' = Tail(pending)

\* C23: the end of a report writes the reported value to the entry of its
\* own court and leaves the entries of the other courts as they are.
C23_NoReportLost ==
  [][ReportEnds =>
       /\ waitTimes'[Head(pending).courtName].time = Head(pending).waitTime
       /\ \A c \in CourtNames \ {Head(pending).courtName} :
            waitTimes'[c] = waitTimes[c]]_vars

\* C24: the Report button of every court with a pending report is disabled
\* (reporting is that court), no court has two pending reports, and with
\* no report pending reporting is null.
C24_ButtonDisabled ==
  /\ \A k \in DOMAIN pending : reporting = pending[k].courtName
  /\ \A j, k \in DOMAIN pending :
       pending[j].courtName = pending[k].courtName => j = k
  /\ pending = <<>> => reporting = null

\* the step in which a 3000 ms timer fires
TimerFires == timers > 0 /\ timers' = timers - 1

\* C25: the end of a report sets reportSuccess to its court, and a timer
\* that clears a set reportSuccess is the timer of the report that set it:
\* the timers fire in the order of their start, so it is the only timer
\* left.
C25_SuccessShown ==
  [][/\ ReportEnds => reportSuccess' = Head(pending).courtName
     /\ (TimerFires /\ reportSuccess # null) => timers = 1]_vars

\* the wait times that are not accepted
NoWaitTime == {"", "Select wait time..."}

\* C26: no pending report and no entry of waitTimes holds the empty wait
\* time or the placeholder; a click on Report either adds a pending report
\* or shows an alert, and the step that shows the alert leaves waitTimes,
\* reporting, reportSuccess, the pending reports and the timers unchanged.
C26_Rejected ==
  /\ [](\A k \in DOMAIN pending : pending[k].waitTime \notin NoWaitTime)
  /\ [](\A c \in CourtNames : waitTimes[c].time \notin NoWaitTime)
  /\ [][reported' # reported =>
          \/ alerts' = alerts /\ Len(pending') = Len(pending) + 1
          \/ /\ alerts' = alerts + 1
             /\ UNCHANGED <<waitTimes, reporting, reportSuccess, pending,
                            timers>>]_vars

\* C26 witness: with a report pending, the click of another card with no
\* wait time selected has shown an alert.
C26_Witness ==
  /\ alerts = 1
  /\ reported = 2
  /\ Len(pending) = 1
  /\ reporting = pending[1].courtName
  /\ waitTimes = initialWaitTimes
  /\ reportSuccess = null
  /\ timers = 0

\* C27: waitTimes has an entry for each of the three courts and for no
\* other, and the status of every entry is the colour getStatusFromWaitTime
\* gives for the time of the entry.
C27_StatusColour ==
  /\ DOMAIN waitTimes = CourtNames
  /\ \A c \in CourtNames :
       waitTimes[c].status = getStatusFromWaitTime(waitTimes[c].time)

\* the values of the boxes of a category that are checked
CheckedOf(id) == {box[2] : box \in {b \in checked : b[1] = id}}

\* an array with no element twice
NoDuplicate(array) ==
  \A j, k \in DOMAIN array : array[j] = array[k] => j = k

Shown ==
  filteredCourts(stateCourts, selectedBoroughs, selectedSurfaces,
                 selectedPermitStatuses)

\* C29: with a map, the markers on the map are those of MapComponent's
\* state, one for each court of filteredCourts and none for another court:
\* no marker of an earlier run is on the map.
C29_Markers ==
  map # null =>
    /\ attached = {markers[k] : k \in DOMAIN markers}
    /\ Len(markers) = Len(Shown)
    /\ \A k \in DOMAIN Shown :
         Cardinality({m \in attached : m.court = Shown[k].id}) = 1
    /\ \A m \in attached : \E k \in DOMAIN Shown : Shown[k].id = m.court
    /\ \A m \in attached : m.run = runs

\* C29 witness: after the third run of the effect the hard box is checked
\* and the one marker on the map is the marker of the hard court.
C29_Witness ==
  /\ map # null
  /\ runs = 3
  /\ selectedSurfaces = <<Hard>>
  /\ selectedBoroughs = <<>>
  /\ selectedPermitStatuses = <<>>
  /\ Cardinality(attached) = 1
  /\ \A m \in attached : m.court = 2 /\ m.run = 3

\* C30: currentTextIndex is an index of texts, and a tick of the interval
\* moves it to the next index, from the last to the first.
C30_ValidIndex ==
  /\ [](/\ ~currentTextIndex.nan
        /\ currentTextIndex.m >= 0
        /\ currentTextIndex.m < Len(texts))
  /\ [][(texts' = texts /\ texts # <<>> /\ currentTextIndex' # currentTextIndex) =>
          currentTextIndex' =
            IF currentTextIndex.m = Len(texts) - 1 THEN Zero
            ELSE Num(currentTextIndex.m + 1, 0)]_vars

====
